---- MODULE Spec2Model ----
(***************************************************************************)
(* A model of libninja's Rust code generator (libninja/src/rust/codegen.rs) *)
(* as a library of pure functions.  The state is one call: its input, the   *)
(* function that was called, the value it returned (or the fatal error it   *)
(* ended in) and the recursive calls it made on the way.                    *)
(*                                                                          *)
(* Strings are TLA+ strings; a character is a string of length one.         *)
(***************************************************************************)
EXTENDS Naturals, Sequences, FiniteSets, TLC

VARIABLES input, called, output, trace

vars == <<input, called, output, trace>>

(***************************************************************************)
(* Bounds of the explored inputs.                                           *)
(***************************************************************************)
MaxLen == 3

MaxDepth == 2

MaxPathLen == 4

(***************************************************************************)
(* Characters and strings.                                                  *)
(***************************************************************************)
Ch(s, i) == SubSeq(s, i, i)

Chars(s) == {Ch(s, i) : i \in 1..Len(s)}

LowerChars == "abcdefghijklmnopqrstuvwxyz"

UpperChars == "ABCDEFGHIJKLMNOPQRSTUVWXYZ"

DigitChars == "0123456789"

LowerSet == Chars(LowerChars)

UpperSet == Chars(UpperChars)

DigitSet == Chars(DigitChars)

LowerOf == [i \in 1..Len(UpperChars) |-> Ch(LowerChars, i)]

ToLower == [c \in UpperSet |-> LowerOf[CHOOSE i \in 1..Len(UpperChars) : Ch(UpperChars, i) = c]]

UpperOf == [i \in 1..Len(LowerChars) |-> Ch(UpperChars, i)]

ToUpper == [c \in LowerSet |-> UpperOf[CHOOSE i \in 1..Len(LowerChars) : Ch(LowerChars, i) = c]]

is_lowercase(c) == c \in LowerSet

is_uppercase(c) == c \in UpperSet

is_digit(c) == c \in DigitSet

\* char::is_numeric, on the characters the model draws (ASCII)
is_numeric(c) == is_digit(c)

to_lowercase_char(c) == IF is_uppercase(c) THEN ToLower[c] ELSE c

to_uppercase_char(c) == IF is_lowercase(c) THEN ToUpper[c] ELSE c

\* What syn and proc_macro2 take for an identifier: letters, digits and '_', not
\* starting with a digit
is_ident_char(c) == is_lowercase(c) \/ is_uppercase(c) \/ is_digit(c) \/ c = "_"

is_ident(s) ==
    /\ s # ""
    /\ \A c \in Chars(s) : is_ident_char(c)
    /\ ~is_digit(Ch(s, 1))

RECURSIVE to_lowercase(_)
to_lowercase(s) == IF s = "" THEN "" ELSE to_lowercase_char(Ch(s, 1)) \o to_lowercase(Tail(s))

ends_with(s, suffix) ==
    /\ Len(s) >= Len(suffix)
    /\ SubSeq(s, Len(s) - Len(suffix) + 1, Len(s)) = suffix

contains(s, c) == c \in Chars(s)

\* str::replace of one character by a string (possibly empty)
RECURSIVE replace(_, _, _)
replace(s, from, to) ==
    IF s = "" THEN ""
    ELSE (IF Ch(s, 1) = from THEN to ELSE Ch(s, 1)) \o replace(Tail(s), from, to)

RECURSIVE join(_, _)
join(words, delim) ==
    IF words = <<>> THEN ""
    ELSE IF Len(words) = 1 THEN words[1]
    ELSE words[1] \o delim \o join(Tail(words), delim)

(***************************************************************************)
(* convert_case: Casing::to_case with the default boundaries.  A string is  *)
(* split into words at the delimiters '_', '-' and ' ' (removed) and then   *)
(* between lower|upper, upper|digit, digit|upper, digit|lower, lower|digit  *)
(* and inside an acronym (upper|upper lower); empty words are dropped.      *)
(***************************************************************************)
is_delimiter(c) == c \in {"_", "-", " "}

boundary_two(c, d) ==
    \/ is_lowercase(c) /\ is_uppercase(d)
    \/ is_uppercase(c) /\ is_digit(d)
    \/ is_digit(c) /\ is_uppercase(d)
    \/ is_digit(c) /\ is_lowercase(d)
    \/ is_lowercase(c) /\ is_digit(d)

boundary_three(c, d, e) == is_uppercase(c) /\ is_uppercase(d) /\ is_lowercase(e)

RECURSIVE split_delimiters(_)
split_delimiters(s) ==
    IF s = "" THEN <<"">>
    ELSE LET rest == split_delimiters(Tail(s))
         IN  IF is_delimiter(Ch(s, 1)) THEN <<"">> \o rest
             ELSE <<Ch(s, 1) \o rest[1]>> \o Tail(rest)

RECURSIVE split_boundaries(_)
split_boundaries(w) ==
    IF Len(w) <= 1 THEN <<w>>
    ELSE LET rest == split_boundaries(Tail(w))
             cut  == \/ boundary_two(Ch(w, 1), Ch(w, 2))
                     \/ Len(w) >= 3 /\ boundary_three(Ch(w, 1), Ch(w, 2), Ch(w, 3))
         IN  IF cut THEN <<Ch(w, 1)>> \o rest
             ELSE <<Ch(w, 1) \o rest[1]>> \o Tail(rest)

RECURSIVE flat_map_boundaries(_)
flat_map_boundaries(words) ==
    IF words = <<>> THEN <<>>
    ELSE split_boundaries(words[1]) \o flat_map_boundaries(Tail(words))

split(s) == SelectSeq(flat_map_boundaries(split_delimiters(s)), LAMBDA w : w # "")

capitalize(w) == IF w = "" THEN "" ELSE to_uppercase_char(Ch(w, 1)) \o to_lowercase(Tail(w))

RECURSIVE lowercase_each(_)
lowercase_each(words) ==
    IF words = <<>> THEN <<>> ELSE <<to_lowercase(words[1])>> \o lowercase_each(Tail(words))

RECURSIVE capitalize_each(_)
capitalize_each(words) ==
    IF words = <<>> THEN <<>> ELSE <<capitalize(words[1])>> \o capitalize_each(Tail(words))

to_case_snake(s) == join(lowercase_each(split(s)), "_")

to_case_pascal(s) == join(capitalize_each(split(s)), "")

to_case_lower(s) == join(lowercase_each(split(s)), " ")

(***************************************************************************)
(* Results: a returned value, an Err of anyhow::Result, or a panic.         *)
(***************************************************************************)
Ok(v) == [tag |-> "Ok", val |-> v]

Err(e) == [tag |-> "Err", err |-> e]

Panic(m) == [tag |-> "Panic", msg |-> m]

None == [tag |-> "None"]

Some(v) == [tag |-> "Some", val |-> v]

(***************************************************************************)
(* The identifier sanitizer.                                                *)
(***************************************************************************)
RestrictedWords ==
    { "as", "break", "const", "continue", "crate", "else", "enum", "extern", "false", "fn",
      "for", "if", "impl", "in", "let", "loop", "match", "mod", "move", "mut", "pub", "ref",
      "return", "self", "Self", "static", "struct", "super", "trait", "true", "type", "unsafe",
      "use", "where", "while", "async", "await", "dyn", "abstract", "become", "box", "do",
      "final", "macro", "override", "priv", "typeof", "unsized", "virtual", "yield", "try" }

is_restricted(s) == s \in RestrictedWords

rewrite_names_keeps_slash(s) ==
    IF s = "+1" THEN "PlusOne"
    ELSE IF s = "-1" THEN "MinusOne"
    ELSE replace(replace(replace(replace(replace(s,
             "@", ""), "'", ""), "+", ""), ":", " "), ".", "_")

rewrite_names(s) ==
    IF s = "+1" THEN "PlusOne"
    ELSE IF s = "-1" THEN "MinusOne"
    ELSE replace(replace(replace(replace(replace(replace(s,
             "/", "_"), "@", ""), "'", ""), "+", ""), ":", " "), ".", "_")

\* Regex "[a-z]_[0-9]" matched left to right without overlap
is_match(s) ==
    /\ Len(s) >= 3
    /\ is_lowercase(Ch(s, 1))
    /\ Ch(s, 2) = "_"
    /\ is_digit(Ch(s, 3))

collapse_first_only(s) ==
    IF \E i \in 1..Len(s) : is_match(SubSeq(s, i, Len(s)))
    THEN LET i == CHOOSE i \in 1..Len(s) :
                     /\ is_match(SubSeq(s, i, Len(s)))
                     /\ \A j \in 1..(i - 1) : ~is_match(SubSeq(s, j, Len(s)))
         IN  SubSeq(s, 1, i) \o SubSeq(s, i + 2, Len(s))
    ELSE s

\* Regex::replace_all with the closure that removes the match's second character
RECURSIVE replace_all(_)
replace_all(s) ==
    IF s = "" THEN ""
    ELSE IF is_match(s) THEN Ch(s, 1) \o Ch(s, 3) \o replace_all(SubSeq(s, 4, Len(s)))
    ELSE Ch(s, 1) \o replace_all(Tail(s))

assert_valid_ident(s, original) ==
    IF s # "" /\ is_numeric(Ch(s, 1)) THEN Panic("Numeric identifier")
    ELSE IF contains(s, ".") THEN Panic("Dot in identifier")
    ELSE Ok(s)

sanitize(s) ==
    LET s1 == replace_all(to_case_snake(rewrite_names(s)))
        s2 == IF is_restricted(s1) THEN s1 \o "_" ELSE s1
    IN  IF s2 = "" THEN Panic("unwrap on None")
        ELSE LET s3 == IF is_numeric(Ch(s2, 1)) THEN "_" \o s2 ELSE s2
             IN  assert_valid_ident(s3, s)

sanitize_ident(s) == sanitize(s)

sanitize_struct(s) ==
    LET s1 == to_case_pascal(rewrite_names(s))
        s2 == IF is_restricted(s1) THEN s1 \o "Struct" ELSE s1
    IN  assert_valid_ident(s2, s)

\* A TokenStream is a sequence of tokens, each a string; quote! renders a string
\* as a literal token
literal(s) == "\"" \o s \o "\""

serde_rename_of_ident(one, two) ==
    IF one # two THEN <<"#", "[", "serde", "(", "rename", "=", literal(two), ")", "]">>
    ELSE <<>>

serde_rename(one, two) ==
    IF one # two THEN <<"#", "[", "serde", "(", "rename", "=", literal(one), ")", "]">>
    ELSE <<>>

(***************************************************************************)
(* The sanitizer's calls.                                                   *)
(***************************************************************************)
Alphabet == {"a", "s", "B", "1", "_", "-", " ", "/", ".", "@", "'", "+", ":"}

RECURSIVE StringsUpTo(_, _)
StringsUpTo(alphabet, n) ==
    IF n = 0 THEN {""}
    ELSE LET shorter == StringsUpTo(alphabet, n - 1)
         IN  shorter \cup {p \o c : p \in shorter, c \in alphabet}

\* The names of the repository's tests, a reserved word in each casing, and a
\* name with two version numbers
SampleNames == {"meta/root", "get-phone-checks-v0.1", "self", "Self", "+1", "-1", "v1beta2"}

RawNames == StringsUpTo(Alphabet, MaxLen) \cup SampleNames

\* The identifiers a caller may pair with a wire name: the name itself (unchanged)
\* and what either sanitizer makes of it
IdentsOf(raw) ==
    {raw} \cup {r.val : r \in {x \in {sanitize_ident(raw), sanitize_struct(raw)} : x.tag = "Ok"}}

InitSanitize ==
    /\ input \in [raw : RawNames]
    /\ called = "none"
    /\ output = None
    /\ trace = {}

CallSanitizeIdent ==
    /\ called = "none"
    /\ called' = "sanitize_ident"
    /\ output' = sanitize_ident(input.raw)
    /\ UNCHANGED <<input, trace>>

CallSanitizeStruct ==
    /\ called = "none"
    /\ called' = "sanitize_struct"
    /\ output' = sanitize_struct(input.raw)
    /\ UNCHANGED <<input, trace>>

CallSerdeRename ==
    /\ called = "none"
    /\ \E two \in IdentsOf(input.raw) :
          /\ called' = "serde_rename"
          /\ output' = [ident |-> two, attr |-> serde_rename(input.raw, two)]
    /\ UNCHANGED <<input, trace>>

NextSanitize == CallSanitizeIdent \/ CallSanitizeStruct \/ CallSerdeRename

SpecSanitize == InitSanitize /\ [][NextSanitize]_vars

(***************************************************************************)
(* The claims about the sanitizer and the rename annotation.                *)
(***************************************************************************)
Sanitized == called \in {"sanitize_ident", "sanitize_struct"} /\ output.tag = "Ok"

HasCollapsible(s) == \E i \in 1..Len(s) : is_match(SubSeq(s, i, Len(s)))

\* C1: whenever sanitize_ident or sanitize_struct returns, the identifier has no
\* '/', no '.', does not start with a digit and is not a reserved word.
C1_Validity ==
    Sanitized =>
        /\ ~contains(output.val, "/")
        /\ ~contains(output.val, ".")
        /\ ~(output.val # "" /\ is_digit(Ch(output.val, 1)))
        /\ ~is_restricted(output.val)

C1_Witness ==
    /\ called = "sanitize_ident"
    /\ output.tag = "Ok"
    /\ contains(input.raw, "/")
    /\ contains(input.raw, ".")
    /\ is_digit(Ch(input.raw, 1))

\* C2: a raw name whose rewritten and cased form is empty ends either sanitizer
\* in a fatal error, and neither sanitizer ever returns the empty identifier.
C2_EmptyIsFatal ==
    /\ (called = "sanitize_ident" /\ to_case_snake(rewrite_names(input.raw)) = "")
          => output.tag = "Panic"
    /\ (called = "sanitize_struct" /\ to_case_pascal(rewrite_names(input.raw)) = "")
          => output.tag = "Panic"
    /\ Sanitized => output.val # ""

\* The wire name a field keeps: the annotation's literal, or else the identifier
RecoveredName(ident, attr) ==
    IF attr = <<>> THEN ident ELSE SubSeq(attr[7], 2, Len(attr[7]) - 1)

\* C3: serde_rename(original, ident) emits #[serde(rename = "original")] iff the
\* original differs from the identifier and nothing when they are equal, so the
\* original name is recoverable from the identifier and the annotation.
C3_RenameIffDiffers ==
    called = "serde_rename" =>
        /\ (input.raw # output.ident) <=> (output.attr # <<>>)
        /\ output.attr # <<>> =>
              /\ SubSeq(output.attr, 1, 6) = <<"#", "[", "serde", "(", "rename", "=">>
              /\ output.attr[7] = literal(input.raw)
              /\ SubSeq(output.attr, 8, Len(output.attr)) = <<")", "]">>
        /\ RecoveredName(output.ident, output.attr) = input.raw

C3_Witness ==
    /\ called = "serde_rename"
    /\ sanitize_ident(input.raw) = Ok(output.ident)
    /\ output.ident # input.raw
    /\ output.attr # <<>>

\* C10: whenever sanitize_ident returns, the identifier has no lowercase ASCII
\* letter immediately followed by '_' and an ASCII digit.
C10_NoLetterUnderscoreDigit ==
    (called = "sanitize_ident" /\ output.tag = "Ok") => ~HasCollapsible(output.val)

C10_Witness ==
    /\ called = "sanitize_ident"
    /\ output.tag = "Ok"
    /\ HasCollapsible(to_case_snake(rewrite_names(input.raw)))

(***************************************************************************)
(* The spec IR: Ty, HirField, Record and the HirSpec that resolves a model  *)
(* name to its record.                                                      *)
(***************************************************************************)
Leaf(kind) == [kind |-> kind]

Array(inner) == [kind |-> "Array", inner |-> inner]

Model(name) == [kind |-> "Model", name |-> name]

LeafKinds ==
    {"String", "Integer", "Float", "Boolean", "Unit", "Any", "Date", "DateTime", "Currency"}

Absent == [rec |-> "Absent"]

Struct(name, fields) == [rec |-> "Struct", name |-> name, fields |-> fields]

NewType(name, fields) == [rec |-> "NewType", name |-> name, fields |-> fields]

StrEnum(name, variants) == [rec |-> "Enum", name |-> name, variants |-> variants]

TypeAlias(name, field) == [rec |-> "TypeAlias", name |-> name, field |-> field]

\* HirSpec::get_record: an unknown model is an error
get_record(spec, model) ==
    IF model \in DOMAIN spec /\ spec[model] # Absent THEN Ok(spec[model])
    ELSE Err("UnknownModel")

\* Ty::is_primitive and Ty::is_reference_type are not in codegen.rs: modelled on
\* the classifier's rule (a string, or an array of primitive elements)
is_primitive(ty) == ty.kind \in {"String", "Integer", "Float", "Boolean"}

is_reference_type(ty) ==
    \/ ty.kind = "String"
    \/ ty.kind = "Array" /\ is_primitive(ty.inner)

(***************************************************************************)
(* to_rust_example_value.  It returns the tokens of the value, or the first *)
(* failure met; calls is the record of the recursive calls it made: where   *)
(* (an array element, a struct field, a newtype field, an alias), with      *)
(* which borrow flag, and what was emitted there.                           *)
(***************************************************************************)
Returned(res, calls) == [res |-> res, calls |-> calls]

Call(site, model, optional, ty, given, flag, r, emitted) ==
    [site |-> site, model |-> model, optional |-> optional, ty |-> ty,
     given |-> given, use_ref_value |-> flag, ok |-> r.res.tag = "Ok",
     value |-> IF r.res.tag = "Ok" THEN r.res.val ELSE <<>>,
     emitted |-> IF r.res.tag = "Ok" THEN emitted ELSE <<>>]

RECURSIVE comma_separated(_)
comma_separated(items) ==
    IF items = <<>> THEN <<>>
    ELSE IF Len(items) = 1 THEN items[1]
    ELSE items[1] \o <<",">> \o comma_separated(Tail(items))

array_use_ref(inner, use_ref_value) ==
    IF ~is_reference_type(inner) THEN FALSE ELSE use_ref_value

field_use_ref_when_optional(force_ref, optional) ==
    LET not_ref == ~force_ref \/ ~optional
    IN  ~not_ref

field_use_ref(force_ref, optional) ==
    LET not_ref == ~force_ref \/ optional
    IN  ~not_ref

alias_use_ref(force_ref, optional) ==
    LET not_ref == ~force_ref \/ ~optional
    IN  not_ref

wrap_always(optional, value) == <<"Some", "(">> \o value \o <<")">>

wrap_optional(optional, value) ==
    IF optional THEN <<"Some", "(">> \o value \o <<")">> ELSE value

RECURSIVE to_rust_example_value(_, _, _, _)
RECURSIVE struct_fields(_, _, _, _)
RECURSIVE newtype_fields(_, _, _)
RECURSIVE model_example(_, _, _, _)

\* The closure over a Struct's fields, collected into a Result: the first field
\* that fails ends it
struct_fields(fields, model, force_ref, spec) ==
    IF fields = <<>> THEN Returned(Ok(<<>>), {})
    ELSE LET field == fields[1]
             flag  == field_use_ref(force_ref, field.optional)
             r     == to_rust_example_value(field.ty, field.name, spec, flag)
             name  == sanitize_ident(field.name)
             value == wrap_optional(field.optional, r.res.val)
             calls == r.calls \cup
                      {Call("field", model, field.optional, field.ty, force_ref, flag, r, value)}
         IN  IF r.res.tag # "Ok" THEN Returned(r.res, calls)
             ELSE IF name.tag # "Ok" THEN Returned(name, calls)
             ELSE LET rest == struct_fields(Tail(fields), model, force_ref, spec)
                  IN  IF rest.res.tag # "Ok" THEN Returned(rest.res, calls \cup rest.calls)
                      ELSE Returned(Ok(<<<<name.val, ":">> \o value>> \o rest.res.val),
                                    calls \cup rest.calls)

\* The closure over a NewType's fields: each synthesized owned, under the
\* newtype's name
newtype_fields(fields, name, spec) ==
    IF fields = <<>> THEN Returned(Ok(<<>>), {})
    ELSE LET f     == fields[1]
             r     == to_rust_example_value(f.ty, name, spec, FALSE)
             calls == r.calls \cup
                      {Call("newtype", name, f.optional, f.ty, FALSE, FALSE, r, r.res.val)}
         IN  IF r.res.tag # "Ok" THEN Returned(r.res, calls)
             ELSE LET rest == newtype_fields(Tail(fields), name, spec)
                  IN  IF rest.res.tag # "Ok" THEN Returned(rest.res, calls \cup rest.calls)
                      ELSE Returned(Ok(<<r.res.val>> \o rest.res.val), calls \cup rest.calls)

\* The match on the record of a Model
model_example(record, model, force_ref, spec) ==
    CASE record.rec = "Struct" ->
            LET fields == struct_fields(record.fields, model, force_ref, spec)
                name   == sanitize_struct(model)
            IN  IF fields.res.tag # "Ok" THEN fields
                ELSE IF name.tag # "Ok" THEN Returned(name, fields.calls)
                ELSE Returned(Ok(<<name.val, "{">> \o comma_separated(fields.res.val)
                                 \o <<"}">>), fields.calls)
      [] record.rec = "NewType" ->
            LET fields == newtype_fields(record.fields, record.name, spec)
                name   == sanitize_struct(record.name)
            IN  IF fields.res.tag # "Ok" THEN fields
                ELSE IF name.tag # "Ok" THEN Returned(name, fields.calls)
                ELSE Returned(Ok(<<name.val, "(">> \o comma_separated(fields.res.val)
                                 \o <<")">>), fields.calls)
      [] record.rec = "Enum" ->
            IF record.variants = <<>> THEN Returned(Panic("unwrap on None"), {})
            ELSE LET variant == sanitize_struct(record.variants[1])
                     name    == sanitize_struct(model)
                 IN  IF variant.tag # "Ok" THEN Returned(variant, {})
                     ELSE IF name.tag # "Ok" THEN Returned(name, {})
                     ELSE Returned(Ok(<<name.val, "::", variant.val>>), {})
      [] record.rec = "TypeAlias" ->
            LET alias == record.field
                flag  == alias_use_ref(force_ref, alias.optional)
                r     == to_rust_example_value(alias.ty, record.name, spec, flag)
                value == wrap_optional(alias.optional, r.res.val)
                calls == r.calls \cup
                         {Call("alias", model, alias.optional, alias.ty, force_ref, flag, r, value)}
            IN  IF r.res.tag # "Ok" THEN Returned(r.res, calls)
                ELSE Returned(Ok(value), calls)

to_rust_example_value(ty, name, spec, use_ref_value) ==
    CASE ty.kind = "String" ->
            LET s == literal("your " \o to_case_lower(name))
            IN  Returned(Ok(IF use_ref_value THEN <<s>>
                            ELSE <<s, ".", "to_owned", "(", ")">>), {})
      [] ty.kind = "Integer" -> Returned(Ok(<<"1">>), {})
      [] ty.kind = "Float" -> Returned(Ok(<<"1.0">>), {})
      [] ty.kind = "Boolean" -> Returned(Ok(<<"true">>), {})
      [] ty.kind = "Array" ->
            LET flag  == array_use_ref(ty.inner, use_ref_value)
                r     == to_rust_example_value(ty.inner, name, spec, flag)
                value == IF flag THEN <<"&", "[">> \o r.res.val \o <<"]">>
                         ELSE <<"vec", "!", "[">> \o r.res.val \o <<"]">>
                calls == r.calls \cup
                         {Call("array", "", FALSE, ty.inner, use_ref_value, flag, r, value)}
            IN  IF r.res.tag # "Ok" THEN Returned(r.res, calls)
                ELSE Returned(Ok(value), calls)
      [] ty.kind = "Model" ->
            LET record    == get_record(spec, ty.name)
                force_ref == ends_with(ty.name, "Required")
            IN  IF record.tag # "Ok" THEN Returned(record, {})
                ELSE model_example(record.val, ty.name, force_ref, spec)
      [] ty.kind = "Unit" -> Returned(Ok(<<"(", ")">>), {})
      [] ty.kind = "Any" ->
            Returned(Ok(<<"serde_json", "::", "json", "!", "(", "{", "}", ")">>), {})
      [] ty.kind = "Date" ->
            Returned(Ok(<<"chrono", "::", "Utc", "::", "now", "(", ")", ".",
                          "date_naive", "(", ")">>), {})
      [] ty.kind = "DateTime" ->
            Returned(Ok(<<"chrono", "::", "Utc", "::", "now", "(", ")">>), {})
      [] ty.kind = "Currency" ->
            Returned(Ok(<<"rust_decimal_macros", "::", "dec", "!", "(", "100.01", ")">>), {})

(***************************************************************************)
(* The synthesizer's calls.  The explored specs are acyclic: a record of    *)
(* the first model refers to no model, a record of the second only to the   *)
(* first.  A model may be absent from the spec.                             *)
(***************************************************************************)
FirstModel == "Tag"

SecondModel == "PetRequired"

FieldNames == {"id", "@"}

LeafTys == {Leaf("String"), Leaf("Integer")}

\* The records a model may have, with fields of the types tys and, when two, a
\* first field named "id"
Records(name, tys, two) ==
    LET hir   == [ty : tys, optional : BOOLEAN]
        named == [name : FieldNames, ty : tys, optional : BOOLEAN]
        first == {f \in named : two /\ f.name = "id"}
        last  == [name : {"tag"}, ty : {Leaf("String")}, optional : BOOLEAN]
    IN  {Absent}
        \cup {Struct(name, fs) : fs \in {<<>>} \cup {<<f>> : f \in named}
                                        \cup {<<f, g>> : f \in first, g \in last}}
        \cup {NewType(name, fs) : fs \in {<<>>} \cup {<<f>> : f \in hir}}
        \cup {StrEnum(name, vs) : vs \in {<<>>, <<"active">>, <<"1st">>}}
        \cup {TypeAlias(name, f) : f \in hir}

HirSpecs ==
    {(FirstModel :> r1) @@ (SecondModel :> r2) :
        r1 \in Records(FirstModel, LeafTys \cup {Array(t) : t \in LeafTys}, FALSE),
        r2 \in Records(SecondModel,
                       LET base == LeafTys \cup {Model(FirstModel)}
                       IN  base \cup {Array(t) : t \in base}, TRUE)}

\* The spec with no model, for the types that refer to none
NoModels == (FirstModel :> Absent) @@ (SecondModel :> Absent)

RECURSIVE Arrays(_, _)
Arrays(base, depth) ==
    IF depth = 0 THEN base ELSE base \cup {Array(t) : t \in Arrays(base, depth - 1)}

Queries ==
    [spec : HirSpecs, ty : Arrays({Model(FirstModel), Model(SecondModel)}, MaxDepth),
     name : {"userName"}, use_ref_value : BOOLEAN]
    \cup [spec : {NoModels}, ty : {Leaf(k) : k \in LeafKinds} \cup Arrays(LeafTys, MaxDepth),
          name : {"userName"}, use_ref_value : BOOLEAN]

InitExample ==
    /\ input \in Queries
    /\ called = "none"
    /\ output = None
    /\ trace = {}

CallToRustExampleValue ==
    /\ called = "none"
    /\ LET r == to_rust_example_value(input.ty, input.name, input.spec, input.use_ref_value)
       IN  /\ called' = "to_rust_example_value"
           /\ output' = r.res
           /\ trace' = r.calls
    /\ UNCHANGED input

NextExample == CallToRustExampleValue

SpecExample == InitExample /\ [][NextExample]_vars

(***************************************************************************)
(* The claims about to_rust_example_value.                                  *)
(***************************************************************************)
Exampled == called = "to_rust_example_value"

FieldCalls == {c \in trace : c.site = "field"}

IsSome(tokens) == Len(tokens) >= 2 /\ tokens[1] = "Some" /\ tokens[2] = "("

\* Every Model reachable from ty has a record in the spec
RECURSIVE AllResolve(_, _)
AllResolve(ty, spec) ==
    IF ty.kind = "Array" THEN AllResolve(ty.inner, spec)
    ELSE IF ty.kind # "Model" THEN TRUE
    ELSE /\ get_record(spec, ty.name).tag = "Ok"
         /\ LET r == spec[ty.name]
            IN  IF r.rec \in {"Struct", "NewType"}
                THEN \A i \in DOMAIN r.fields : AllResolve(r.fields[i].ty, spec)
                ELSE IF r.rec = "TypeAlias" THEN AllResolve(r.field.ty, spec)
                ELSE TRUE

ValidName(r) == r.tag = "Ok" /\ is_ident(r.val)

\* Every Enum reachable from ty has a variant, and every name the synthesis
\* turns into an identifier sanitizes to an identifier (non-empty, of letters,
\* digits and '_')
RECURSIVE WellNamed(_, _)
WellNamed(ty, spec) ==
    IF ty.kind = "Array" THEN WellNamed(ty.inner, spec)
    ELSE IF ty.kind # "Model" \/ get_record(spec, ty.name).tag # "Ok" THEN TRUE
    ELSE LET r == spec[ty.name]
         IN  IF r.rec = "Struct"
             THEN /\ ValidName(sanitize_struct(ty.name))
                  /\ \A i \in DOMAIN r.fields :
                        /\ ValidName(sanitize_ident(r.fields[i].name))
                        /\ WellNamed(r.fields[i].ty, spec)
             ELSE IF r.rec = "NewType"
             THEN /\ ValidName(sanitize_struct(r.name))
                  /\ \A i \in DOMAIN r.fields : WellNamed(r.fields[i].ty, spec)
             ELSE IF r.rec = "Enum"
             THEN /\ r.variants # <<>>
                  /\ ValidName(sanitize_struct(r.variants[1]))
                  /\ ValidName(sanitize_struct(ty.name))
             ELSE WellNamed(r.field.ty, spec)

C7_BorrowOnlyIfNotForcedOrOptional ==
    Exampled =>
        \A c \in FieldCalls :
            c.use_ref_value => (~ends_with(c.model, "Required") \/ c.optional)

\* C7 amended: a struct field is synthesized with borrowing enabled if and only
\* if force_ref is true (the model name ends in "Required") and the field is not
\* optional.
C7_BorrowIffForcedAndRequired ==
    Exampled =>
        \A c \in FieldCalls :
            c.use_ref_value <=> (ends_with(c.model, "Required") /\ ~c.optional)

C7_Witness ==
    /\ Exampled
    /\ \E c \in FieldCalls : c.use_ref_value
    /\ \E c \in FieldCalls : ~c.use_ref_value /\ c.optional
    /\ \E c \in FieldCalls : ~c.use_ref_value /\ ~c.optional

\* C8: the aliased field of a TypeAlias gets the borrow flag a Struct field with
\* the same force_ref and optional flag gets, and the result is wrapped in
\* Some(...) iff the alias is optional.
C8_AliasBorrowsLikeField ==
    Exampled =>
        \A c \in trace :
            c.site = "alias" =>
                /\ c.use_ref_value = field_use_ref(ends_with(c.model, "Required"), c.optional)
                /\ c.ok => c.emitted = IF c.optional THEN <<"Some", "(">> \o c.value \o <<")">>
                                       ELSE c.value

IsLiteral(token) == Len(token) >= 2 /\ Ch(token, 1) = "\"" /\ Ch(token, Len(token)) = "\""

\* No borrowed slice literal &[...] has an owned vec![...] or an owned string
\* copy "...".to_owned() as its element
NoOwnedInSlice(tokens) ==
    \A i \in 1..Len(tokens) :
        (tokens[i] = "&" /\ i + 2 <= Len(tokens) /\ tokens[i + 1] = "[") =>
            /\ tokens[i + 2] # "vec"
            /\ ~(/\ i + 4 <= Len(tokens)
                 /\ IsLiteral(tokens[i + 2])
                 /\ tokens[i + 3] = "."
                 /\ tokens[i + 4] = "to_owned")

\* C9: for Array(inner) the borrow flag is forced to false when inner is not
\* borrow-eligible; the array is &[elem] exactly when the effective flag is true
\* and vec![elem] otherwise, the element synthesized under that flag; so at any
\* depth a borrowed slice never holds an owned vec! or an owned string copy.
C9_BorrowedSliceHoldsBorrowed ==
    Exampled =>
        /\ \A c \in trace :
              c.site = "array" =>
                  /\ c.use_ref_value = (is_reference_type(c.ty) /\ c.given)
                  /\ c.ok => c.emitted = IF c.use_ref_value
                                         THEN <<"&", "[">> \o c.value \o <<"]">>
                                         ELSE <<"vec", "!", "[">> \o c.value \o <<"]">>
        /\ output.tag = "Ok" => NoOwnedInSlice(output.val)

(***************************************************************************)
(* The emission IR and its rendering: Visibility, Doc, ImportItem, Import,  *)
(* Function (as a method of a Class), Field and Class.                      *)
(***************************************************************************)
RECURSIVE flatten(_)
flatten(streams) ==
    IF streams = <<>> THEN <<>> ELSE streams[1] \o flatten(Tail(streams))

RECURSIVE trim_start(_)
trim_start(s) == IF s # "" /\ Ch(s, 1) = " " THEN trim_start(Tail(s)) ELSE s

RECURSIVE trim_end(_)
trim_end(s) ==
    IF s # "" /\ Ch(s, Len(s)) = " " THEN trim_end(SubSeq(s, 1, Len(s) - 1)) ELSE s

trim(s) == trim_end(trim_start(s))

pub_tok(public) == IF public THEN <<"pub">> ELSE <<>>

visibility_to_rust_code(vis) ==
    CASE vis = "Public" -> <<"pub">>
      [] vis = "Private" -> <<>>
      [] vis = "Crate" -> <<"pub", "(", "crate", ")">>

doc_to_rust_code(doc) ==
    IF doc = None THEN <<>>
    ELSE <<"#", "[", "doc", "=", literal(trim(doc.val)), "]">>

\* proc_macro2's Ident::new panics on what is no identifier
ident_new(s) == IF is_ident(s) THEN Ok(s) ELSE Panic("not a valid Ident")

\* syn's parser of an Ident also refuses a keyword
parse_ident(s) == IF is_ident(s) /\ ~is_restricted(s) THEN Ok(s) ELSE Err("expected identifier")

RECURSIVE ident_len(_)
ident_len(s) == IF s # "" /\ is_ident_char(Ch(s, 1)) THEN 1 + ident_len(Tail(s)) ELSE 0

RECURSIVE lex_path(_)
lex_path(s) ==
    IF s = "" THEN <<>>
    ELSE IF Len(s) >= 2 /\ SubSeq(s, 1, 2) = "::"
    THEN <<"::">> \o lex_path(SubSeq(s, 3, Len(s)))
    ELSE IF is_ident_char(Ch(s, 1))
    THEN <<SubSeq(s, 1, ident_len(s))>> \o lex_path(SubSeq(s, ident_len(s) + 1, Len(s)))
    ELSE <<Ch(s, 1)>> \o lex_path(Tail(s))

is_path_segment(token) ==
    is_ident(token) /\ (~is_restricted(token) \/ token \in {"self", "Self", "super", "crate"})

\* syn::parse_str::<syn::Path>: segments separated by "::", after an optional
\* leading "::"
parse_path(s) ==
    LET tokens == lex_path(s)
        body   == IF tokens # <<>> /\ tokens[1] = "::" THEN Tail(tokens) ELSE tokens
    IN  IF /\ Len(body) % 2 = 1
           /\ \A i \in 1..Len(body) :
                 IF i % 2 = 1 THEN is_path_segment(body[i]) ELSE body[i] = "::"
        THEN Ok(tokens)
        ELSE Err("expected path")

import_item_to_rust_code(item) ==
    IF item.alias # None
    THEN LET alias == ident_new(item.alias.val)
             path  == parse_path(item.name)
         IN  IF alias.tag # "Ok" THEN alias
             ELSE IF path.tag # "Ok" THEN Panic("unwrap on Err")
             ELSE Ok(path.val \o <<"as", alias.val>>)
    ELSE IF item.name = "*" THEN Ok(<<"*">>)
    ELSE LET path == parse_path(item.name)
         IN  IF path.tag # "Ok" THEN Panic("unwrap on Err") ELSE Ok(path.val)

RECURSIVE import_items(_)
import_items(imports) ==
    IF imports = <<>> THEN Ok(<<>>)
    ELSE LET item == import_item_to_rust_code(imports[1])
             rest == import_items(Tail(imports))
         IN  IF item.tag # "Ok" THEN item
             ELSE IF rest.tag # "Ok" THEN rest
             ELSE Ok(<<item.val>> \o rest.val)

import_form_list_first(path, vis, alias, imports) ==
    IF imports # <<>>
    THEN LET items == import_items(imports)
         IN  IF items.tag # "Ok" THEN items
             ELSE Ok(vis \o <<"use">> \o path \o <<"::", "{">>
                     \o comma_separated(items.val) \o <<"}", ";">>)
    ELSE IF alias # None
    THEN LET a == parse_ident(alias.val)
         IN  IF a.tag # "Ok" THEN Panic("unwrap on Err")
             ELSE Ok(vis \o <<"use">> \o path \o <<"as", a.val, ";">>)
    ELSE Ok(vis \o <<"use">> \o path \o <<";">>)

\* The choice among the alias, the list and the bare form, path parsed
import_form(path, vis, alias, imports) ==
    IF alias # None
    THEN LET a == parse_ident(alias.val)
         IN  IF a.tag # "Ok" THEN Panic("unwrap on Err")
             ELSE Ok(vis \o <<"use">> \o path \o <<"as", a.val, ";">>)
    ELSE IF imports # <<>>
    THEN LET items == import_items(imports)
         IN  IF items.tag # "Ok" THEN items
             ELSE Ok(vis \o <<"use">> \o path \o <<"::", "{">>
                     \o comma_separated(items.val) \o <<"}", ";">>)
    ELSE Ok(vis \o <<"use">> \o path \o <<";">>)

import_inner(import) ==
    IF ends_with(import.path, "*")
    THEN IF Len(import.path) < 3 THEN Panic("slice index out of range")
         ELSE LET path == parse_path(SubSeq(import.path, 1, Len(import.path) - 3))
              IN  IF path.tag # "Ok" THEN Panic("unwrap on Err")
                  ELSE Ok(<<"use">> \o path.val \o <<"::", "*", ";">>)
    ELSE LET path == parse_path(import.path)
         IN  IF path.tag # "Ok" THEN Panic("Failed to parse as syn::Path")
             ELSE import_form(path.val, visibility_to_rust_code(import.vis),
                              import.alias, import.imports)

import_to_rust_code(import) ==
    LET f       == IF import.feature = None THEN Ok(<<>>) ELSE ident_new(import.feature.val)
        feature == IF import.feature = None THEN <<>>
                   ELSE <<"#", "[", "cfg", "(", "feature", "=", f.val, ")", "]">>
        inner   == import_inner(import)
    IN  IF f.tag # "Ok" THEN f
        ELSE IF inner.tag # "Ok" THEN inner
        ELSE Ok(feature \o inner.val)

RECURSIVE function_args(_)
function_args(args) ==
    IF args = <<>> THEN <<>>
    ELSE <<<<args[1].name, ":">> \o args[1].ty>> \o function_args(Tail(args))

codegen_function(func, self_arg) ==
    pub_tok(func.public) \o (IF func.async_ THEN <<"async">> ELSE <<>>)
    \o <<"fn", func.name, "(">> \o self_arg \o comma_separated(function_args(func.args))
    \o <<")", "->">> \o func.ret \o <<"{">> \o func.body \o <<"}">>

RECURSIVE codegen_functions(_, _)
codegen_functions(funcs, self_arg) ==
    IF funcs = <<>> THEN <<>>
    ELSE codegen_function(funcs[1], self_arg) \o codegen_functions(Tail(funcs), self_arg)

field_to_rust_code(field) ==
    LET name == sanitize_ident(field.name)
        ty   == IF field.optional THEN <<"Option", "<">> \o field.ty \o <<">">> ELSE field.ty
    IN  IF name.tag # "Ok" THEN name
        ELSE Ok(doc_to_rust_code(field.doc) \o flatten(field.decorators)
                \o visibility_to_rust_code(field.visibility) \o <<name.val, ":">> \o ty
                \o <<",">>)

\* The closure of Class::to_rust_code over instance_fields, each followed by ','
RECURSIVE class_fields(_)
class_fields(fields) ==
    IF fields = <<>> THEN Ok(<<>>)
    ELSE LET f    == fields[1]
             name == sanitize_ident(f.name)
             rest == class_fields(Tail(fields))
         IN  IF name.tag # "Ok" THEN name
             ELSE IF rest.tag # "Ok" THEN rest
             ELSE Ok(visibility_to_rust_code(f.visibility) \o <<name.val, ":">> \o f.ty
                     \o <<",">> \o rest.val)

\* syn::Lifetime::new panics unless given an apostrophe and an identifier
RECURSIVE class_lifetimes(_)
class_lifetimes(lifetimes) ==
    IF lifetimes = <<>> THEN Ok(<<>>)
    ELSE LET l    == lifetimes[1]
             rest == class_lifetimes(Tail(lifetimes))
         IN  IF ~(l # "" /\ Ch(l, 1) = "'" /\ is_ident(Tail(l)))
             THEN Panic("lifetime name must start with apostrophe")
             ELSE IF rest.tag # "Ok" THEN rest
             ELSE Ok(<<<<l>>>> \o rest.val)

class_to_rust_code(class) ==
    LET names     == class_lifetimes(class.lifetimes)
        lifetimes == IF class.lifetimes = <<>> THEN <<>>
                     ELSE <<"<">> \o comma_separated(names.val) \o <<">">>
        fields    == class_fields(class.instance_fields)
    IN  IF names.tag # "Ok" THEN names
        ELSE IF fields.tag # "Ok" THEN fields
        ELSE Ok(doc_to_rust_code(class.doc) \o flatten(class.decorators)
                \o pub_tok(class.public) \o <<"struct", class.name>> \o lifetimes
                \o <<"{">> \o fields.val \o <<"}">>
                \o <<"impl">> \o lifetimes \o <<class.name>> \o lifetimes \o <<"{">>
                \o codegen_functions(class.instance_methods, <<"self", ",">>)
                \o codegen_functions(class.mut_self_instance_methods, <<"mut", "self", ",">>)
                \o codegen_functions(class.class_methods, <<>>)
                \o <<"}">>)

(***************************************************************************)
(* The renderer's calls on an Import.                                       *)
(***************************************************************************)
Visibilities == {"Public", "Private", "Crate"}

\* The paths of the repository's tests, and every short string of a segment
\* letter, ':' and '*'
Paths ==
    StringsUpTo({"a", ":", "*"}, MaxPathLen)
    \cup {"super::*", "super", "plaid::model", "plaid::model::LinkTokenCreateRequestUser", "foo_bar"}

ImportItems ==
    {[name |-> "Foobar", alias |-> None], [name |-> "*", alias |-> None],
     [name |-> "plaid::Item", alias |-> Some("item")]}

Imports ==
    [path : Paths,
     alias : {None, Some("foobar"), Some("as")},
     imports : {<<>>} \cup {<<i>> : i \in ImportItems}
                      \cup {p \in ImportItems \X ImportItems : p[1] # p[2]},
     vis : Visibilities,
     feature : {None, Some("full")}]

InitImport ==
    /\ input \in Imports
    /\ called = "none"
    /\ output = None
    /\ trace = {}

CallImportToRustCode ==
    /\ called = "none"
    /\ called' = "Import::to_rust_code"
    /\ output' = import_to_rust_code(input)
    /\ UNCHANGED <<input, trace>>

NextImport == CallImportToRustCode

SpecImport == InitImport /\ [][NextImport]_vars

(***************************************************************************)
(* The renderer's calls on a Class and on its fields.                       *)
(***************************************************************************)
Fields ==
    [name : {"id", "type"},
     ty : {<<"String">>},
     optional : BOOLEAN,
     visibility : Visibilities,
     doc : {None, Some(" The identifier. ")},
     decorators : {<<>>, <<<<"#", "[", "serde", "(", "default", ")", "]">>>>}]

LastField ==
    [name |-> "tag", ty |-> <<"Vec", "<", "String", ">">>, optional |-> FALSE,
     visibility |-> "Public", doc |-> None, decorators |-> <<>>]

Method(name, public, async_) ==
    [name |-> name, args |-> <<[name |-> "id", ty |-> <<"i64">>]>>, body |-> <<"todo", "!", "(", ")">>,
     async_ |-> async_, public |-> public, ret |-> <<"Self">>]

Classes ==
    [name : {"Pet"},
     public : BOOLEAN,
     lifetimes : {<<>>, <<"'a">>},
     decorators : {<<>>, <<<<"#", "[", "derive", "(", "Debug", ")", "]">>>>},
     doc : {None, Some("A pet.")},
     instance_fields : {<<>>} \cup {<<f>> : f \in Fields} \cup {<<f, LastField>> : f \in Fields},
     instance_methods : {<<>>, <<Method("get", TRUE, TRUE)>>},
     mut_self_instance_methods : {<<>>, <<Method("set", FALSE, FALSE)>>},
     class_methods : {<<>>, <<Method("new", TRUE, FALSE)>>}]

InitClass ==
    /\ input \in Classes
    /\ called = "none"
    /\ output = None
    /\ trace = {}

CallClassToRustCode ==
    /\ called = "none"
    /\ called' = "Class::to_rust_code"
    /\ output' = class_to_rust_code(input)
    /\ UNCHANGED <<input, trace>>

CallFieldToRustCode ==
    /\ called = "none"
    /\ \E i \in DOMAIN input.instance_fields :
          /\ called' = "Field::to_rust_code"
          /\ output' = field_to_rust_code(input.instance_fields[i])
    /\ UNCHANGED <<input, trace>>

NextClass == CallClassToRustCode \/ CallFieldToRustCode

SpecClass == InitClass /\ [][NextClass]_vars

(***************************************************************************)
(* The claims about the renderer.                                           *)
(***************************************************************************)
ImportRendered == called = "Import::to_rust_code" /\ output.tag = "Ok"

\* The rendered import after the feature guard #[cfg(feature = f)], if any
ImportBody ==
    IF input.feature = None THEN output.val ELSE SubSeq(output.val, 10, Len(output.val))

ItemsInOrder ==
    comma_separated([i \in DOMAIN input.imports |->
                        import_item_to_rust_code(input.imports[i]).val])

\* C5: a rendered import has exactly one form, by priority: a path ending in
\* '*' gives `use <path>::*;` (the path less its last three characters) whatever
\* the alias and the import list; otherwise an alias gives `use <path> as
\* <alias>;` whatever the import list; otherwise a non-empty import list gives
\* one braced, comma-separated list in input order; otherwise `use <path>;`.
C5_ImportFormByPriority ==
    ImportRendered =>
        LET vis  == visibility_to_rust_code(input.vis)
            path == parse_path(input.path).val
        IN  IF ends_with(input.path, "*")
            THEN ImportBody = <<"use">>
                     \o parse_path(SubSeq(input.path, 1, Len(input.path) - 3)).val
                     \o <<"::", "*", ";">>
            ELSE IF input.alias # None
            THEN ImportBody = vis \o <<"use">> \o path \o <<"as", input.alias.val, ";">>
            ELSE IF input.imports # <<>>
            THEN ImportBody = vis \o <<"use">> \o path \o <<"::", "{">> \o ItemsInOrder
                                  \o <<"}", ";">>
            ELSE ImportBody = vis \o <<"use">> \o path \o <<";">>

C5_Witness ==
    /\ ImportRendered
    /\ ends_with(input.path, "::*")
    /\ input.alias # None
    /\ Len(input.imports) = 2

ClassRendered == called = "Class::to_rust_code" /\ output.tag = "Ok"

\* The tokens between the braces of the struct declaration
StructBody(tokens) ==
    LET open  == CHOOSE i \in 1..Len(tokens) :
                     tokens[i] = "{" /\ \A j \in 1..(i - 1) : tokens[j] # "{"
        close == CHOOSE i \in 1..(Len(tokens) - 1) :
                     /\ tokens[i] = "}" /\ tokens[i + 1] = "impl"
                     /\ \A j \in 1..(i - 1) : ~(tokens[j] = "}" /\ tokens[j + 1] = "impl")
    IN  SubSeq(tokens, open + 1, close - 1)

FieldsRendered(fields) ==
    flatten([i \in DOMAIN fields |-> field_to_rust_code(fields[i]).val])

\* C6: a rendered Class declares every instance field with its visibility, its
\* documentation and its decorators, an optional field with an Option-wrapped
\* type: each as the rendering of the Field itself.
C6_ClassFieldsAsFields ==
    ClassRendered => StructBody(output.val) = FieldsRendered(input.instance_fields)

====
